---- MODULE Spec2Model ----
(***************************************************************************)
(* The GDELT ingestion pipeline of stock-analysis-dashboard:               *)
(*   db.py            load_articles_for_date_range, check_storage_limit    *)
(*   gdelt_loader.py  process_articles_for_day, read_gz_file_from_s3       *)
(*   mongo.py         insert_articles, get_client_for_date                 *)
(* Text (titles, urls, dates, object keys) is a sequence of one-character  *)
(* strings, so that lower(), substring tests, strptime and strftime are    *)
(* computed character by character as the Python code computes them.       *)
(***************************************************************************)
EXTENDS Integers, Sequences, FiniteSets, TLC

(***************************************************************************)
(* Characters and Python string operations                                 *)
(***************************************************************************)

\* The characters used, in code-point order (the order sorted() compares by).
Alphabet ==
  <<" ", "-", ".", "/", "0", "1", "2", "3", "4", "5", "6", "7", "8", "9", ":",
    "A", "B", "C", "D", "E", "F", "G", "H", "I", "J", "K", "L", "M", "N", "O",
    "P", "Q", "R", "S", "T", "U", "V", "W", "X", "Y", "Z", "_",
    "a", "b", "c", "d", "e", "f", "g", "h", "i", "j", "k", "l", "m", "n", "o",
    "p", "q", "r", "s", "t", "u", "v", "w", "x", "y", "z">>

\* ord(c), as a table.
OrdTable ==
  [c \in {Alphabet[i] : i \in 1..Len(Alphabet)} |->
     CHOOSE i \in 1..Len(Alphabet) : Alphabet[i] = c]

Ord(c) == OrdTable[c]

IsUpper(c) == Ord(c) >= Ord("A") /\ Ord(c) <= Ord("Z")

IsDigit(c) == Ord(c) >= Ord("0") /\ Ord(c) <= Ord("9")

\* str.lower(): upper-case letters are mapped to lower case, the rest is kept.
LowerChar(c) == IF IsUpper(c) THEN Alphabet[Ord(c) + (Ord("a") - Ord("A"))] ELSE c

Lower(s) == [i \in 1..Len(s) |-> LowerChar(s[i])]

\* `sub in s` of Python strings.
Contains(sub, s) ==
  \E i \in 0..(Len(s) - Len(sub)) : \A j \in 1..Len(sub) : s[i + j] = sub[j]

\* s.endswith(suffix)
EndsWith(s, suffix) ==
  /\ Len(s) >= Len(suffix)
  /\ \A j \in 1..Len(suffix) : s[Len(s) - Len(suffix) + j] = suffix[j]

\* s.startswith(prefix): the Prefix= filter of list_objects_v2.
StartsWith(s, prefix) ==
  /\ Len(s) >= Len(prefix)
  /\ \A j \in 1..Len(prefix) : s[j] = prefix[j]

\* s < t in the lexical order of Python strings.
LexLess(s, t) ==
  \/ /\ Len(s) < Len(t)
     /\ \A j \in 1..Len(s) : s[j] = t[j]
  \/ \E i \in 1..Len(s) :
        /\ i <= Len(t)
        /\ \A j \in 1..(i - 1) : s[j] = t[j]
        /\ Ord(s[i]) < Ord(t[i])

(***************************************************************************)
(* JSON values and Python dictionaries                                     *)
(***************************************************************************)

\* A value of a dictionary key: a string, null (None), or the key is absent.
Str(s) == [t |-> "str", v |-> s]

None == [t |-> "null", v |-> <<>>]

Absent == [t |-> "absent", v |-> <<>>]

\* dict.get(key): None when the key is absent.
Get(article, key) == IF article[key].t = "absent" THEN None ELSE article[key]

\* dict.get(key, default)
GetDefault(article, key, default) ==
  IF article[key].t = "absent" THEN default ELSE article[key]

\* Python truthiness of a string-or-None value.
Truthy(x) == x.t = "str" /\ x.v # <<>>

(***************************************************************************)
(* datetime: strptime, comparison, timedelta(days=1), strftime             *)
(***************************************************************************)

\* A datetime is <<year, month, day, hour, minute, second>>.
IsLeap(y) == (y % 4 = 0 /\ y % 100 # 0) \/ y % 400 = 0

DaysInMonth(y, m) ==
  IF m = 2 THEN (IF IsLeap(y) THEN 29 ELSE 28)
  ELSE IF m \in {4, 6, 9, 11} THEN 30 ELSE 31

DigitVal(c) == Ord(c) - Ord("0")

\* The number written by the digits s[from..to].
RECURSIVE Num(_, _, _)
Num(s, from, to) ==
  IF to < from THEN 0 ELSE Num(s, from, to - 1) * 10 + DigitVal(s[to])

\* The text has the shape of "%Y-%m-%dT%H:%M:%SZ".
MatchesIsoFormat(s) ==
  /\ Len(s) = 20
  /\ \A i \in {1, 2, 3, 4, 6, 7, 9, 10, 12, 13, 15, 16, 18, 19} : IsDigit(s[i])
  /\ s[5] = "-" /\ s[8] = "-" /\ s[11] = "T"
  /\ s[14] = ":" /\ s[17] = ":" /\ s[20] = "Z"

IsoFields(s) ==
  <<Num(s, 1, 4), Num(s, 6, 7), Num(s, 9, 10),
    Num(s, 12, 13), Num(s, 15, 16), Num(s, 18, 19)>>

ValidDateTime(d) ==
  /\ d[1] >= 1
  /\ d[2] \in 1..12
  /\ d[3] >= 1 /\ d[3] <= DaysInMonth(d[1], d[2])
  /\ d[4] \in 0..23 /\ d[5] \in 0..59 /\ d[6] \in 0..59

\* datetime.strptime(x, "%Y-%m-%dT%H:%M:%SZ"): a datetime, or the exception
\* raised (TypeError for None, ValueError for text that does not match).
Strptime(x) ==
  IF x.t # "str" THEN [exc |-> "TypeError", dt |-> <<>>]
  ELSE IF ~MatchesIsoFormat(x.v) THEN [exc |-> "ValueError", dt |-> <<>>]
  ELSE IF ~ValidDateTime(IsoFields(x.v)) THEN [exc |-> "ValueError", dt |-> <<>>]
  ELSE [exc |-> "", dt |-> IsoFields(x.v)]

\* a < b on datetimes
DtLess(a, b) ==
  \E i \in 1..6 : (\A j \in 1..(i - 1) : a[j] = b[j]) /\ a[i] < b[i]

\* a <= b on datetimes
DtLeq(a, b) == a = b \/ DtLess(a, b)

\* A step of two days (one at the end of a month).
AddDay_Two(d) ==
  IF d[3] + 1 < DaysInMonth(d[1], d[2]) THEN [d EXCEPT ![3] = d[3] + 2]
  ELSE IF d[2] < 12 THEN [d EXCEPT ![2] = d[2] + 1, ![3] = 1]
  ELSE [d EXCEPT ![1] = d[1] + 1, ![2] = 1, ![3] = 1]

\* d + timedelta(days=1)
AddDay(d) ==
  IF d[3] < DaysInMonth(d[1], d[2]) THEN [d EXCEPT ![3] = d[3] + 1]
  ELSE IF d[2] < 12 THEN [d EXCEPT ![2] = d[2] + 1, ![3] = 1]
  ELSE [d EXCEPT ![1] = d[1] + 1, ![2] = 1, ![3] = 1]

DigitChar(n) == Alphabet[Ord("0") + n]

\* d.strftime("%Y%m%d")
Strftime(d) ==
  <<DigitChar((d[1] \div 1000) % 10), DigitChar((d[1] \div 100) % 10),
    DigitChar((d[1] \div 10) % 10), DigitChar(d[1] % 10),
    DigitChar(d[2] \div 10), DigitChar(d[2] % 10),
    DigitChar(d[3] \div 10), DigitChar(d[3] % 10)>>

(***************************************************************************)
(* Cluster registry (mongo.py and db.py hold the same table)               *)
(***************************************************************************)

CLUSTERS ==
  << [name |-> "cluster1",
      start_date |-> Str(<<"2", "0", "2", "4", "-", "0", "1", "-", "0", "1", "T", "0", "0", ":", "0", "0", ":", "0", "0", "Z">>),
      end_date |-> Str(<<"2", "0", "2", "4", "-", "0", "3", "-", "0", "1", "T", "2", "3", ":", "5", "9", ":", "5", "9", "Z">>)],
     [name |-> "cluster2",
      start_date |-> Str(<<"2", "0", "2", "4", "-", "0", "3", "-", "0", "2", "T", "0", "0", ":", "0", "0", ":", "0", "0", "Z">>),
      end_date |-> Str(<<"2", "0", "2", "4", "-", "0", "4", "-", "2", "6", "T", "2", "3", ":", "5", "9", ":", "5", "9", "Z">>)],
     [name |-> "cluster3",
      start_date |-> Str(<<"2", "0", "2", "4", "-", "0", "4", "-", "2", "7", "T", "0", "0", ":", "0", "0", ":", "0", "0", "Z">>),
      end_date |-> Str(<<"2", "0", "2", "4", "-", "0", "6", "-", "3", "0", "T", "2", "3", ":", "5", "9", ":", "5", "9", "Z">>)] >>

ClusterNames == {CLUSTERS[i].name : i \in 1..Len(CLUSTERS)}

\* Lines 39-40: the parsed bounds of the configured ranges.
Ranges ==
  [i \in 1..Len(CLUSTERS) |->
     [name |-> CLUSTERS[i].name,
      start_date |-> Strptime(CLUSTERS[i].start_date).dt,
      end_date |-> Strptime(CLUSTERS[i].end_date).dt]]

\* Line 42: start_date <= date_obj <= end_date
InRange(range, date_obj) ==
  DtLeq(range.start_date, date_obj) /\ DtLeq(date_obj, range.end_date)

\* The loop of get_client_for_date over CLUSTERS.items(): the first cluster
\* in range, cluster1 when there is none.
FirstMatch(date_obj) ==
  IF \E i \in 1..Len(Ranges) : InRange(Ranges[i], date_obj)
  THEN Ranges[CHOOSE i \in 1..Len(Ranges) :
                /\ InRange(Ranges[i], date_obj)
                /\ \A j \in 1..(i - 1) : ~InRange(Ranges[j], date_obj)].name
  ELSE CLUSTERS[1].name

\* db.py get_client_for_date(date_obj): takes a datetime.
db_get_client_for_date(date_obj) == FirstMatch(date_obj)

\* mongo.py get_client_for_date(date_str): parses the text first; the
\* exception of strptime is not caught.
get_client_for_date(date_str) ==
  IF Strptime(date_str).exc # ""
  THEN [exc |-> Strptime(date_str).exc, cluster |-> ""]
  ELSE [exc |-> "", cluster |-> FirstMatch(Strptime(date_str).dt)]

(***************************************************************************)
(* mongo.py insert_articles: filtering and document preparation            *)
(***************************************************************************)

KEYWORDS ==
  << <<"t", "e", "s", "l", "a">>, <<"a", "p", "p", "l", "e">>,
     <<"g", "o", "o", "g", "l", "e">>, <<"n", "v", "i", "d", "i", "a">>,
     <<"m", "i", "c", "r", "o", "s", "o", "f", "t">> >>

ENGLISH == <<"E", "N", "G", "L", "I", "S", "H">>

\* The language tag compared without regard to case.
LangOk_IgnoreCase(article) ==
  Get(article, "lang").t = "str" /\ Lower(Get(article, "lang").v) = Lower(ENGLISH)

\* Line 57: article.get("lang") != "ENGLISH" skips the record.
LangOk(article) == Get(article, "lang") = Str(ENGLISH)

\* Lines 60-63: any(keyword in title or keyword in url for keyword in KEYWORDS)
\* on the lower-cased title and url ("" when the key is absent).
KeywordOk(article) ==
  LET title == Lower(GetDefault(article, "title", Str(<<>>)).v)
      url == Lower(GetDefault(article, "url", Str(<<>>)).v)
  IN \E k \in 1..Len(KEYWORDS) :
        Contains(KEYWORDS[k], title) \/ Contains(KEYWORDS[k], url)

\* A record the loop of lines 56-77 raises AttributeError on: a JSON value
\* that is no object has no .get; a null title or url has no .lower().
\* The language test runs first, so a skipped record never reaches .lower().
PrepareRaises(article) ==
  \/ article.kind # "dict"
  \/ /\ LangOk(article)
     /\ \/ GetDefault(article, "title", Str(<<>>)).t # "str"
        \/ GetDefault(article, "url", Str(<<>>)).t # "str"

PassesFilter(article) == LangOk(article) /\ KeywordOk(article)

\* str(article), the last fallback of line 66.
Repr(article) ==
  <<"{">> \o article.lang.v \o <<",">> \o article.title.v \o <<",">>
          \o article.url.v \o <<",">> \o article.date.v \o <<"}">>

\* The whole record hashed, whatever its url and title.
UrlOrTitle_Repr(article) == Repr(article)

\* Line 66: article.get("url") or article.get("title") or str(article)
UrlOrTitle(article) ==
  IF Truthy(Get(article, "url")) THEN Get(article, "url").v
  ELSE IF Truthy(Get(article, "title")) THEN Get(article, "title").v
  ELSE Repr(article)

\* hashlib.md5(...).hexdigest(): a digest determined by the text hashed
\* (collisions of MD5 are not modelled).
Md5(text) == <<"md5:">> \o text

\* Lines 67-76: the document built from a record.
MakeDoc(article) ==
  [_id |-> Md5(UrlOrTitle(article)),
   date |-> Get(article, "date"),
   title |-> Get(article, "title"),
   url |-> Get(article, "url"),
   lang |-> Get(article, "lang")]

\* The elements of a sequence at the indices of S, in increasing index order.
SubSeqAt(seq, S) ==
  [k \in 1..Cardinality(S) |->
     seq[CHOOSE i \in S : Cardinality({j \in S : j < i}) = k - 1]]

\* Lines 51-77: the documents of the records that pass both filters, in order.
PrepareDocuments(articles) ==
  LET kept == {i \in 1..Len(articles) : PassesFilter(articles[i])}
  IN [k \in 1..Cardinality(kept) |-> MakeDoc(SubSeqAt(articles, kept)[k])]

(***************************************************************************)
(* The storage cluster: collection.insert_many(documents, ordered=False)   *)
(***************************************************************************)

\* Documents written without their _id: the server gives each a fresh one
\* and accepts them all.
Accepted_NoUniqueId(stored, documents) == 1..Len(documents)

\* An ordered bulk write (ordered=True): the server stops at the first
\* document it rejects.
Accepted_Ordered(stored, documents) ==
  {i \in 1..Len(documents) :
     \A h \in 1..i :
        /\ \A k \in 1..Len(stored) : stored[k]._id # documents[h]._id
        /\ \A j \in 1..(h - 1) : documents[j]._id # documents[h]._id}

\* The documents the server accepts: _id is unique in the collection, so a
\* document is rejected when its _id is stored already or an earlier document
\* of the same batch carries it; with ordered=False the rest is still tried.
Accepted(stored, documents) ==
  {i \in 1..Len(documents) :
     /\ \A k \in 1..Len(stored) : stored[k]._id # documents[i]._id
     /\ \A j \in 1..(i - 1) : documents[j]._id # documents[i]._id}

\* The collection after the bulk write, nInserted and the number of
\* writeErrors the driver reports.
InsertMany(stored, documents) ==
  LET acc == Accepted(stored, documents)
  IN [coll |-> stored \o SubSeqAt(documents, acc),
      nInserted |-> Cardinality(acc),
      writeErrors |-> Len(documents) - Cardinality(acc)]

\* One attempt more than the code makes.
RETRIES_Four == 3 + 1

RETRIES == 3

BACKOFF == 5

(***************************************************************************)
(* gdelt_loader.py: partitions                                             *)
(***************************************************************************)

\* A threshold two records lower.
BATCH_SIZE_Small == 500 - 2

BATCH_SIZE == 500

GZ == <<".", "g", "z">>

\* A line of a partition file: JSON text of a value, text that is not JSON
\* (a truncated record), or white space only.
JsonLine(value) == [body |-> "json", val |-> value]

\* Lines 29-37, the body of the loop for one line: strip, skip an empty
\* line, json.loads; JSONDecodeError is caught and the line is skipped.
LineRecords(line) ==
  IF line.body = "blank" THEN <<>>
  ELSE IF line.body = "json" THEN <<line.val>>
  ELSE <<>>

\* The line makes read_gz_file_from_s3 print "Skipping corrupted line".
LineSkipped(line) == line.body \notin {"blank", "json"}

\* Lines 27-38: the loop over the lines of the file; the records of the lines
\* are appended in file order (the sequence is split in halves to keep the
\* evaluation shallow on long files).
RECURSIVE ReadLines(_)
ReadLines(lines) ==
  IF Len(lines) = 0 THEN <<>>
  ELSE IF Len(lines) = 1 THEN LineRecords(lines[1])
  ELSE LET h == Len(lines) \div 2
       IN ReadLines(SubSeq(lines, 1, h)) \o ReadLines(SubSeq(lines, h + 1, Len(lines)))

\* The try statement around the loop instead of inside it: the first line
\* that is not JSON ends the reading of the file.
read_gz_file_from_s3_Abort(objects, key) ==
  LET lines == (CHOOSE o \in objects : o.key = key).lines
      bad == {i \in 1..Len(lines) : LineSkipped(lines[i])}
      stop == IF bad = {} THEN Len(lines) + 1
              ELSE CHOOSE i \in bad : \A j \in bad : i <= j
  IN ReadLines(SubSeq(lines, 1, stop - 1))

\* s3.get_object(Bucket, Key) and read_gz_file_from_s3 on it.
read_gz_file_from_s3(objects, key) ==
  ReadLines((CHOOSE o \in objects : o.key = key).lines)

\* sorted(files, reverse=True): the keys in decreasing lexical order.
RECURSIVE Sorted_Desc(_)
Sorted_Desc(S) ==
  IF S = {} THEN <<>>
  ELSE LET m == CHOOSE x \in S : \A y \in S \ {x} : LexLess(y, x)
       IN <<m>> \o Sorted_Desc(S \ {m})

\* sorted(files): the keys in increasing lexical order.
RECURSIVE Sorted(_)
Sorted(S) ==
  IF S = {} THEN <<>>
  ELSE LET m == CHOOSE x \in S : \A y \in S \ {x} : LexLess(x, y)
       IN <<m>> \o Sorted(S \ {m})

\* Lines 17-21: the keys under "{date_str}/" that end in ".gz", sorted.
list_gz_files_for_day(objects, date_str) ==
  Sorted({o.key : o \in {p \in objects :
                          /\ StartsWith(p.key, date_str \o <<"/">>)
                          /\ EndsWith(p.key, GZ)}})

(***************************************************************************)
(* Sample records and bucket contents                                      *)
(***************************************************************************)

\* Not English, keyword in the title.
FrTesla ==
  [kind |-> "dict", lang |-> Str(<<"F", "R", "E", "N", "C", "H">>),
   title |-> Str(<<"T", "e", "s", "l", "a">>),
   url |-> Str(<<"x", "/", "y">>),
   date |-> Str(<<"2", "0", "2", "4", "-", "0", "3", "-", "0", "1", "T", "1", "0", ":", "0", "0", ":", "0", "0", "Z">>)]

\* English, keyword in the title only (mixed case), dated in cluster1.
EnTesla ==
  [kind |-> "dict", lang |-> Str(<<"E", "N", "G", "L", "I", "S", "H">>),
   title |-> Str(<<"T", "e", "s", "l", "a">>),
   url |-> Str(<<"x", "/", "t">>),
   date |-> Str(<<"2", "0", "2", "4", "-", "0", "3", "-", "0", "1", "T", "1", "0", ":", "0", "0", ":", "0", "0", "Z">>)]

\* The same article (same url) carrying a date of cluster2.
EnTeslaLater ==
  [kind |-> "dict", lang |-> Str(<<"E", "N", "G", "L", "I", "S", "H">>),
   title |-> Str(<<"T", "e", "s", "l", "a">>),
   url |-> Str(<<"x", "/", "t">>),
   date |-> Str(<<"2", "0", "2", "4", "-", "0", "3", "-", "0", "2", "T", "1", "0", ":", "0", "0", ":", "0", "0", "Z">>)]

\* English, keyword in the url only, dated in cluster2.
EnAppleUrl ==
  [kind |-> "dict", lang |-> Str(<<"E", "N", "G", "L", "I", "S", "H">>),
   title |-> Str(<<"x">>),
   url |-> Str(<<"x", "/", "A", "p", "p", "l", "e">>),
   date |-> Str(<<"2", "0", "2", "4", "-", "0", "3", "-", "0", "2", "T", "1", "0", ":", "0", "0", ":", "0", "0", "Z">>)]

\* English, no keyword.
EnNoKeyword ==
  [kind |-> "dict", lang |-> Str(<<"E", "N", "G", "L", "I", "S", "H">>),
   title |-> Str(<<"x">>),
   url |-> Str(<<"x", "/", "y">>),
   date |-> Str(<<"2", "0", "2", "4", "-", "0", "3", "-", "0", "1", "T", "1", "0", ":", "0", "0", ":", "0", "0", "Z">>)]

\* Language tag in lower case.
LowerLangTesla ==
  [kind |-> "dict", lang |-> Str(<<"e", "n", "g", "l", "i", "s", "h">>),
   title |-> Str(<<"t", "e", "s", "l", "a">>),
   url |-> Str(<<"x", "/", "l">>),
   date |-> Str(<<"2", "0", "2", "4", "-", "0", "3", "-", "0", "1", "T", "1", "0", ":", "0", "0", ":", "0", "0", "Z">>)]

\* No url key; dated after the last configured range.
NoUrlGoogle ==
  [kind |-> "dict", lang |-> Str(<<"E", "N", "G", "L", "I", "S", "H">>),
   title |-> Str(<<"G", "O", "O", "G", "L", "E">>),
   url |-> Absent,
   date |-> Str(<<"2", "0", "2", "4", "-", "0", "7", "-", "0", "1", "T", "1", "0", ":", "0", "0", ":", "0", "0", "Z">>)]

\* No url key, the title of NoUrlGoogle, dated in cluster1.
NoUrlGoogleEarly ==
  [kind |-> "dict", lang |-> Str(<<"E", "N", "G", "L", "I", "S", "H">>),
   title |-> Str(<<"G", "O", "O", "G", "L", "E">>),
   url |-> Absent,
   date |-> Str(<<"2", "0", "2", "4", "-", "0", "3", "-", "0", "1", "T", "1", "0", ":", "0", "0", ":", "0", "0", "Z">>)]

\* No date key.
NoDateTesla ==
  [kind |-> "dict", lang |-> Str(<<"E", "N", "G", "L", "I", "S", "H">>),
   title |-> Str(<<"t", "e", "s", "l", "a">>),
   url |-> Str(<<"x", "/", "n">>),
   date |-> Absent]

\* A date that is not in the ISO format.
BadDateTesla ==
  [kind |-> "dict", lang |-> Str(<<"E", "N", "G", "L", "I", "S", "H">>),
   title |-> Str(<<"t", "e", "s", "l", "a">>),
   url |-> Str(<<"x", "/", "b">>),
   date |-> Str(<<"2", "0", "2", "4", "0", "3", "0", "1">>)]

\* title: null
NullTitle ==
  [kind |-> "dict", lang |-> Str(<<"E", "N", "G", "L", "I", "S", "H">>),
   title |-> None,
   url |-> Str(<<"x", "/", "n", "v", "i", "d", "i", "a">>),
   date |-> Str(<<"2", "0", "2", "4", "-", "0", "3", "-", "0", "1", "T", "1", "0", ":", "0", "0", ":", "0", "0", "Z">>)]

\* A JSON value that is not an object (a number, a list).
Scalar ==
  [kind |-> "scalar", lang |-> Absent, title |-> Absent, url |-> Absent,
   date |-> Absent]

\* A line that is not JSON (a truncated record).
GarbageLine == [body |-> "garbage", val |-> Scalar]

\* A line of white space.
BlankLine == [body |-> "blank", val |-> Scalar]

K0301a == <<"2", "0", "2", "4", "0", "3", "0", "1", "/", "a", ".", "g", "z">>

K0301b == <<"2", "0", "2", "4", "0", "3", "0", "1", "/", "b", ".", "g", "z">>

K0301c == <<"2", "0", "2", "4", "0", "3", "0", "1", "/", "c", ".", "t", "x", "t">>

K0302a == <<"2", "0", "2", "4", "0", "3", "0", "2", "/", "a", ".", "g", "z">>

K0303a == <<"2", "0", "2", "4", "0", "3", "0", "3", "/", "a", ".", "g", "z">>

\* One object of the bucket.
Obj(key, lines) == [key |-> key, lines |-> lines]

\* The scenario of the specification: a non-English record, an English
\* record with tesla in its title, a malformed line.
ScenarioLines == <<JsonLine(FrTesla), GarbageLine, JsonLine(EnTesla)>>

ScenarioBucket == {Obj(K0301a, ScenarioLines)}

\* The same article twice in one file, a second file and a key without .gz.
DuplicateBucket ==
  {Obj(K0301a, <<JsonLine(EnAppleUrl), BlankLine, JsonLine(EnAppleUrl)>>),
   Obj(K0301b, <<GarbageLine, JsonLine(EnTesla), JsonLine(LowerLangTesla)>>),
   Obj(K0301c, <<JsonLine(NoUrlGoogle)>>)}

\* The same article in the partitions of two days, once behind a record of
\* another cluster's date range.
CrossBucket ==
  {Obj(K0301a, <<JsonLine(EnTesla), JsonLine(EnNoKeyword)>>),
   Obj(K0302a, <<JsonLine(EnAppleUrl), JsonLine(EnTesla), JsonLine(EnTeslaLater)>>)}

\* Records whose date is missing, malformed or outside every range.
DateBucket ==
  {Obj(K0301a, <<JsonLine(NoUrlGoogle), JsonLine(NoDateTesla),
                  JsonLine(NoUrlGoogleEarly)>>),
   Obj(K0302a, <<JsonLine(NoDateTesla)>>),
   Obj(K0303a, <<JsonLine(EnTesla)>>)}

BadDateBucket == {Obj(K0302a, <<JsonLine(BadDateTesla), JsonLine(EnTesla)>>)}

\* Values that are JSON but no well-formed record.
MalformedBucket ==
  {Obj(K0301a, <<JsonLine(EnTesla), JsonLine(Scalar)>>),
   Obj(K0302a, <<JsonLine(NullTitle)>>)}

\* A file that overfills a batch (one line more than BATCH_SIZE) followed by
\* a short one.
BigBucket ==
  {Obj(K0301a, [i \in 1..(BATCH_SIZE + 1) |->
                  IF i = 2 THEN JsonLine(EnTesla)
                  ELSE IF i = 7 THEN JsonLine(EnAppleUrl)
                  ELSE JsonLine(FrTesla)]),
   Obj(K0301b, <<GarbageLine, JsonLine(EnNoKeyword)>>)}

SampleLines ==
  <<JsonLine(EnTesla), JsonLine(EnTeslaLater), GarbageLine>>

\* A two-line file over the sample lines.
PairBucket(i, j) == {Obj(K0302a, <<SampleLines[i], SampleLines[j]>>)}

\* The bucket contents a behaviour may start from, by name.
BucketNames ==
  {[name |-> n, i |-> 0, j |-> 0] :
     n \in {"scenario", "duplicate", "cross", "date", "baddate", "malformed", "big"}}
  \cup {[name |-> "pair", i |-> i, j |-> j] :
          i \in 1..Len(SampleLines), j \in 1..Len(SampleLines)}

\* The objects of the named bucket.
Objects(b) ==
  CASE b.name = "scenario" -> ScenarioBucket
    [] b.name = "duplicate" -> DuplicateBucket
    [] b.name = "cross" -> CrossBucket
    [] b.name = "date" -> DateBucket
    [] b.name = "baddate" -> BadDateBucket
    [] b.name = "malformed" -> MalformedBucket
    [] b.name = "big" -> BigBucket
    [] b.name = "pair" -> PairBucket(b.i, b.j)

(***************************************************************************)
(* Bounds                                                                  *)
(***************************************************************************)

\* The runs of the program (python db.py) a behaviour may hold.
MaxRuns == 2

\* The days a range may span, from FirstDay on.
RangeDays == 2

FirstDay == <<2024, 3, 1, 0, 0, 0>>

RECURSIVE DayAt(_)
DayAt(n) == IF n = 0 THEN FirstDay ELSE AddDay(DayAt(n - 1))

Days == {DayAt(n) : n \in 0..(RangeDays - 1)}

\* Storage (MB) the clusters report before the first run.
InitUsage == {0, 490}

\* Storage (MB) a bulk write that stores something may add.
Growth == {25}

(***************************************************************************)
(* db.py constants                                                         *)
(***************************************************************************)

STORAGE_THRESHOLD == 490

\* The capacity of a cluster (MB) the stop message of line 75 names.
CAPACITY == 512

\* Line 75: the message printed when the run is stopped.
StopMessage == "WARNING: Approaching 512MB limit"

\* The comparison with >= in place of >.
OverThreshold_AtLeast(storage_mb) == storage_mb >= STORAGE_THRESHOLD

\* Line 74: storage_mb > 490
OverThreshold(storage_mb) == storage_mb > STORAGE_THRESHOLD

(***************************************************************************)
(* State                                                                   *)
(***************************************************************************)

VARIABLES
  bucket,           \* the S3 bucket (by name, see Objects)
  coll,             \* per cluster: the documents of gdelt_news.articles
  usage,            \* per cluster: storage (MB) dbstats reports
  log,              \* the lines of etl_log.txt
  runs,             \* program runs started
  pc,               \* position of the running program
  exc,              \* the exception that ended the run, "" when none
  out,              \* the kinds of message the running program has printed
  openClients,      \* MongoClient objects created and not closed
  current_date,     \* load_articles_for_date_range
  end_date,
  date_str,
  storage_mb,
  keys,             \* process_articles_for_day: keys still to read
  key,              \*   the key read last
  articles,         \*   result of the last read_gz_file_from_s3
  pending_batch,
  total_inserted,
  total_duplicates,
  ret,              \*   which call of insert_articles is running
  documents,        \* insert_articles
  retries,
  inserted_count,
  duplicate_count,
  attempts,         \* observed: loop iterations of the current call
  last_outcome,     \* observed: outcome of the last iteration
  slept,            \* observed: seconds slept by the current call
  written,          \* observed: the last bulk write (collection before, cluster)
  dropped,          \* observed: a batch of the current day was abandoned
  before,           \* observed: documents stored when the current day began
  calls,            \* observed: the last two completed process_articles_for_day
  handed,           \* observed: the batches the current day handed to insert_articles
  returned          \* observed: the pairs insert_articles returned for them

vars ==
  <<bucket, coll, usage, log, runs, pc, exc, out, openClients, current_date,
    end_date, date_str, storage_mb, keys, key, articles, pending_batch,
    total_inserted, total_duplicates, ret, documents, retries, inserted_count,
    duplicate_count, attempts, last_outcome, slept, written, dropped, before,
    calls, handed, returned>>

\* The external state: the bucket, the clusters and the log file.
external == <<bucket, coll, usage, log>>

\* The locals of load_articles_for_date_range.
orchestrator == <<current_date, end_date, date_str, storage_mb>>

\* The locals of process_articles_for_day.
day_locals ==
  <<keys, key, articles, pending_batch, total_inserted, total_duplicates, ret>>

\* The locals of insert_articles and what is observed of its loop.
insert_locals ==
  <<documents, retries, inserted_count, duplicate_count, attempts,
    last_outcome, slept, written>>

\* What is observed of the calls of insert_articles of the current day.
day_calls == <<handed, returned>>

RECURSIVE SumLen(_, _)
SumLen(f, S) ==
  IF S = {} THEN 0
  ELSE LET c == CHOOSE x \in S : TRUE IN Len(f[c]) + SumLen(f, S \ {c})

\* The number of documents stored in all clusters.
TotalStored == SumLen(coll, ClusterNames)

NoWrite == [cluster |-> "", stored |-> <<>>]

Init ==
  /\ bucket \in BucketNames
  /\ coll = [c \in ClusterNames |-> <<>>]
  /\ \E u \in InitUsage : usage = [c \in ClusterNames |-> u]
  /\ log = <<>>
  /\ runs = 0
  /\ pc = "idle"
  /\ exc = ""
  /\ out = {}
  /\ openClients = 0
  /\ current_date = FirstDay
  /\ end_date = FirstDay
  /\ date_str = <<>>
  /\ storage_mb = 0
  /\ keys = <<>>
  /\ key = <<>>
  /\ articles = <<>>
  /\ pending_batch = <<>>
  /\ total_inserted = 0
  /\ total_duplicates = 0
  /\ ret = ""
  /\ documents = <<>>
  /\ retries = 0
  /\ inserted_count = 0
  /\ duplicate_count = 0
  /\ attempts = 0
  /\ last_outcome = ""
  /\ slept = 0
  /\ written = NoWrite
  /\ dropped = FALSE
  /\ before = 0
  /\ calls = <<>>
  /\ handed = <<>>
  /\ returned = <<>>

(***************************************************************************)
(* db.py: load_articles_for_date_range                                     *)
(***************************************************************************)

\* The locals of a fresh process.
FreshLocals ==
  /\ date_str' = <<>>
  /\ storage_mb' = 0
  /\ keys' = <<>>
  /\ key' = <<>>
  /\ articles' = <<>>
  /\ pending_batch' = <<>>
  /\ total_inserted' = 0
  /\ total_duplicates' = 0
  /\ ret' = ""
  /\ documents' = <<>>
  /\ retries' = 0
  /\ inserted_count' = 0
  /\ duplicate_count' = 0
  /\ attempts' = 0
  /\ last_outcome' = ""
  /\ slept' = 0
  /\ written' = NoWrite
  /\ dropped' = FALSE
  /\ before' = 0
  /\ handed' = <<>>
  /\ returned' = <<>>

\* Lines 80-85 and 52: the program is started (again) on a range; a new
\* process has no open client and has printed nothing.
Main(start, end) ==
  /\ pc \in {"idle", "done", "stopped", "raised"}
  /\ runs < MaxRuns
  /\ runs' = runs + 1
  /\ pc' = "loop"
  /\ exc' = ""
  /\ out' = {}
  /\ openClients' = 0
  /\ current_date' = start
  /\ end_date' = end
  /\ FreshLocals
  /\ UNCHANGED <<external, calls>>

\* Lines 54-59 and 41-45: the loop test holds; the day's keys are listed and
\* process_articles_for_day starts with empty totals and batch.
BeginDay ==
  /\ pc = "loop"
  /\ DtLeq(current_date, end_date)
  /\ date_str' = Strftime(current_date)
  /\ out' = out \cup {"Processing"}
  /\ keys' = list_gz_files_for_day(Objects(bucket), Strftime(current_date))
  /\ total_inserted' = 0
  /\ total_duplicates' = 0
  /\ pending_batch' = <<>>
  /\ dropped' = FALSE
  /\ before' = TotalStored
  /\ handed' = <<>>
  /\ returned' = <<>>
  /\ pc' = "files"
  /\ UNCHANGED <<external, runs, exc, openClients, current_date, end_date,
                 storage_mb, key, articles, ret, insert_locals, calls>>

\* Line 54: the loop test fails; the function returns, the range is exhausted.
RangeExhausted ==
  /\ pc = "loop"
  /\ ~DtLeq(current_date, end_date)
  /\ pc' = "done"
  /\ UNCHANGED <<external, runs, exc, out, openClients, orchestrator,
                 day_locals, insert_locals, dropped, before, calls,
                 day_calls>>

(***************************************************************************)
(* gdelt_loader.py: process_articles_for_day                               *)
(***************************************************************************)

\* Lines 47-58: one iteration of the loop over the keys. The file is read,
\* its records extend the batch, and a batch of BATCH_SIZE records or more is
\* handed to insert_articles.
ReadFile ==
  /\ pc = "files"
  /\ keys # <<>>
  /\ LET lines == (CHOOSE o \in Objects(bucket) : o.key = Head(keys)).lines
         recs == read_gz_file_from_s3(Objects(bucket), Head(keys))
         skipped == \E i \in 1..Len(lines) : LineSkipped(lines[i])
         batch == IF recs # <<>> THEN pending_batch \o recs ELSE pending_batch
     IN /\ key' = Head(keys)
        /\ keys' = Tail(keys)
        /\ out' = out \cup {"Processing file"}
                        \cup (IF skipped THEN {"Skipping corrupted line"} ELSE {})
        /\ articles' = recs
        /\ pending_batch' = batch
        /\ IF recs # <<>> /\ Len(batch) >= BATCH_SIZE
           THEN /\ pc' = "insert" /\ ret' = "loop"
                /\ handed' = Append(handed, batch)
           ELSE /\ pc' = "files" /\ ret' = ret
                /\ handed' = handed
        /\ returned' = returned
  /\ UNCHANGED <<external, runs, exc, openClients, orchestrator,
                 total_inserted, total_duplicates, insert_locals, dropped,
                 before, calls>>

\* Lines 60-63: after the loop, a batch that is not empty is handed to
\* insert_articles.
FlushFinal ==
  /\ pc = "files"
  /\ keys = <<>>
  /\ IF pending_batch # <<>>
     THEN pc' = "insert" /\ ret' = "final"
          /\ handed' = Append(handed, pending_batch)
     ELSE pc' = "dayend" /\ ret' = ret /\ handed' = handed
  /\ returned' = returned
  /\ UNCHANGED <<external, runs, exc, out, openClients, orchestrator, keys,
                 key, articles, pending_batch, total_inserted,
                 total_duplicates, insert_locals, dropped, before, calls>>

(***************************************************************************)
(* mongo.py: insert_articles                                               *)
(***************************************************************************)

\* Lines 51-80: the documents are prepared from the batch; a record the loop
\* cannot handle raises out of the call. No document: (0, 0) is returned.
InsertArticlesPrepare ==
  /\ pc = "insert"
  /\ inserted_count' = 0
  /\ duplicate_count' = 0
  /\ attempts' = 0
  /\ last_outcome' = ""
  /\ slept' = 0
  /\ written' = NoWrite
  /\ IF \E i \in 1..Len(pending_batch) : PrepareRaises(pending_batch[i])
     THEN /\ pc' = "raised"
          /\ exc' = "AttributeError"
          /\ documents' = <<>>
          /\ retries' = 0
          /\ calls' = <<>>
     ELSE /\ documents' = PrepareDocuments(pending_batch)
          /\ retries' = IF documents' # <<>> THEN RETRIES ELSE 0
          /\ pc' = IF documents' # <<>> THEN "attempt" ELSE "return"
          /\ exc' = exc
          /\ calls' = calls
  /\ UNCHANGED <<external, runs, out, openClients, orchestrator, day_locals,
                 dropped, before, day_calls>>

\* Line 84: strptime in get_client_for_date raises on the date of the first
\* document; the exception is none of those the loop catches.
AttemptResolveFails ==
  /\ pc = "attempt"
  /\ retries > 0
  /\ get_client_for_date(documents[1].date).exc # ""
  /\ pc' = "raised"
  /\ exc' = get_client_for_date(documents[1].date).exc
  /\ attempts' = attempts + 1
  /\ last_outcome' = "raise"
  /\ calls' = <<>>
  /\ UNCHANGED <<external, runs, out, openClients, orchestrator, day_locals,
                 documents, retries, inserted_count, duplicate_count, slept,
                 written, dropped, before, day_calls>>

\* Lines 84-94 and 100-101: a client is created and insert_many fails with
\* ServerSelectionTimeoutError: message, sleep, one retry less; after the
\* last retry the batch is abandoned.
AttemptTimeout ==
  /\ pc = "attempt"
  /\ retries > 0
  /\ get_client_for_date(documents[1].date).exc = ""
  /\ openClients' = openClients + 1
  /\ attempts' = attempts + 1
  /\ last_outcome' = "timeout"
  /\ slept' = slept + BACKOFF
  /\ retries' = retries - 1
  /\ IF retries' = 0
     THEN /\ out' = out \cup {"Connection Timeout", "All retries failed"}
          /\ dropped' = TRUE
          /\ pc' = "return"
     ELSE /\ out' = out \cup {"Connection Timeout"}
          /\ dropped' = dropped
          /\ pc' = "attempt"
  /\ UNCHANGED <<external, runs, exc, orchestrator, day_locals, documents,
                 inserted_count, duplicate_count, written, before, calls,
                 day_calls>>

\* Lines 84-90 and 95-98: a client is created and the bulk write reaches the
\* cluster of the first document's date. Without write errors insert_many
\* returns; with write errors it raises BulkWriteError, which is caught.
AttemptInsert ==
  /\ pc = "attempt"
  /\ retries > 0
  /\ get_client_for_date(documents[1].date).exc = ""
  /\ LET c == get_client_for_date(documents[1].date).cluster
         r == InsertMany(coll[c], documents)
     IN /\ coll' = [coll EXCEPT ![c] = r.coll]
        /\ \E g \in (IF r.nInserted > 0 THEN Growth ELSE {0}) :
              usage' = [usage EXCEPT ![c] = usage[c] + g]
        /\ written' = [cluster |-> c, stored |-> coll[c]]
        /\ IF r.writeErrors = 0
           THEN /\ inserted_count' = Len(documents)
                /\ duplicate_count' = duplicate_count
                /\ last_outcome' = "success"
           ELSE /\ inserted_count' = r.nInserted
                /\ duplicate_count' = r.writeErrors
                /\ last_outcome' = "BulkWriteError"
  /\ openClients' = openClients + 1
  /\ attempts' = attempts + 1
  /\ pc' = "return"
  /\ UNCHANGED <<bucket, log, runs, exc, out, orchestrator, day_locals,
                 documents, retries, slept, dropped, before, calls,
                 day_calls>>

\* Lines 103 and 55-58, 62-63: the pair is returned and added to the totals;
\* in the loop the batch is emptied.
InsertReturn ==
  /\ pc = "return"
  /\ total_inserted' = total_inserted + inserted_count
  /\ total_duplicates' = total_duplicates + duplicate_count
  /\ IF ret = "loop"
     THEN pending_batch' = <<>> /\ pc' = "files"
     ELSE pending_batch' = pending_batch /\ pc' = "dayend"
  /\ handed' = handed
  /\ returned' = Append(returned, <<inserted_count, duplicate_count>>)
  /\ UNCHANGED <<external, runs, exc, out, openClients, orchestrator, keys,
                 key, articles, ret, insert_locals, dropped, before, calls>>

(***************************************************************************)
(* db.py: end of a day, storage check                                      *)
(***************************************************************************)

\* The record kept of a completed call of process_articles_for_day.
CallRecord ==
  [day |-> date_str, inserted |-> total_inserted,
   duplicates |-> total_duplicates, dropped |-> dropped,
   before |-> before, after |-> TotalStored]

\* Lines 65 and 59-68: process_articles_for_day returns its totals; they are
\* printed and a line is appended to etl_log.txt.
DayEnd ==
  /\ pc = "dayend"
  /\ out' = out \cup {"Finished"}
  /\ log' = Append(log, [date |-> date_str, inserted |-> total_inserted,
                         duplicates |-> total_duplicates])
  /\ calls' = IF calls = <<>> THEN <<CallRecord>>
              ELSE <<calls[Len(calls)], CallRecord>>
  /\ pc' = "check"
  /\ UNCHANGED <<bucket, coll, usage, runs, exc, openClients, orchestrator,
                 day_locals, insert_locals, dropped, before,
                 day_calls>>

\* Lines 42-49 and 71-78: the client of the day's cluster is created, dbstats
\* answers and the client is closed. Above the threshold the loop is left,
\* otherwise the next day is up.
CheckStorage ==
  /\ pc = "check"
  /\ storage_mb' = usage[db_get_client_for_date(current_date)]
  /\ IF OverThreshold(storage_mb')
     THEN /\ out' = out \cup {"Current MongoDB storage used", StopMessage}
          /\ pc' = "stopped"
          /\ current_date' = current_date
     ELSE /\ out' = out \cup {"Current MongoDB storage used"}
          /\ pc' = "loop"
          /\ current_date' = AddDay(current_date)
  /\ UNCHANGED <<external, runs, exc, openClients, end_date, date_str,
                 day_locals, insert_locals, dropped, before, calls,
                 day_calls>>

\* Lines 44-46: db.command("dbstats") raises (the cluster is unreachable);
\* nothing catches it and client.close() is not reached.
CheckStorageFails ==
  /\ pc = "check"
  /\ openClients' = openClients + 1
  /\ exc' = "ServerSelectionTimeoutError"
  /\ pc' = "raised"
  /\ UNCHANGED <<external, runs, out, orchestrator, day_locals,
                 insert_locals, dropped, before, calls, day_calls>>

Next ==
  \/ \E start \in Days, end \in Days : Main(start, end)
  \/ BeginDay
  \/ RangeExhausted
  \/ ReadFile
  \/ FlushFinal
  \/ InsertArticlesPrepare
  \/ AttemptResolveFails
  \/ AttemptTimeout
  \/ AttemptInsert
  \/ InsertReturn
  \/ DayEnd
  \/ CheckStorage
  \/ CheckStorageFails

Spec == Init /\ [][Next]_vars

(***************************************************************************)
(* Properties                                                              *)
(***************************************************************************)

\* The last two completed calls of process_articles_for_day read the same day.
SameDayTwice == Len(calls) = 2 /\ calls[1].day = calls[2].day

\* C1 as stated: process_articles_for_day run twice in a row on a day gives n
\* inserted on the first run, then 0 inserted and n duplicates on the second,
\* and the second run stores nothing.
C1_RerunAsStated ==
  SameDayTwice =>
    /\ calls[2].inserted = 0
    /\ calls[2].duplicates = calls[1].inserted
    /\ calls[2].after = calls[1].after

\* C1 amended: when both runs return and neither abandoned a batch, the first
\* returns (n, d), the second returns (0, n + d), and the number of stored
\* documents after the second run is the number after the first.
C1_Rerun ==
  (SameDayTwice /\ ~calls[1].dropped /\ ~calls[2].dropped) =>
    /\ calls[2].inserted = 0
    /\ calls[2].duplicates = calls[1].inserted + calls[1].duplicates
    /\ calls[2].after = calls[1].after

\* A day has been read twice, the first time storing documents and rejecting
\* others.
C1_RerunWitness ==
  /\ SameDayTwice /\ ~calls[1].dropped /\ ~calls[2].dropped
  /\ calls[1].inserted > 0 /\ calls[1].duplicates > 0
  /\ calls[2].duplicates = calls[1].inserted + calls[1].duplicates

\* C2: no cluster's storage usage exceeds its capacity of 512 MB.
C2_NoOverflow == \A c \in ClusterNames : usage[c] <= CAPACITY

\* The steps C3 allows: a storage check that reports more than 490 stops the run at that day
\* with the stop message, which a run that exhausts its range never prints;
\* a report of 490 or less moves on to the next day; nothing of a stopped run
\* follows (the only step from there is a new run of the program).
C3_Step ==
  /\ (pc = "check" /\ pc' # "raised") =>
        IF storage_mb' > 490
        THEN /\ pc' = "stopped"
             /\ current_date' = current_date
             /\ StopMessage \in out'
        ELSE /\ pc' = "loop"
             /\ current_date' = AddDay(current_date)
             /\ StopMessage \notin out'
  /\ pc = "stopped" => (pc' = "loop" /\ runs' = runs + 1 /\ out' = {})
  /\ pc' = "done" => StopMessage \notin out'

\* C3: every step of the program is a step as C3_Step describes.
C3_HaltOrAdvance == [][C3_Step]_vars

\* The run stopped with a day of its range left.
C3_Witness ==
  /\ pc = "stopped" /\ storage_mb > 490
  /\ DtLess(current_date, end_date)

\* The text of a string value, empty for None.
TextOf(x) == IF x.t = "str" THEN x.v ELSE <<>>

\* Two characters are the same letter, whatever their case.
SameLetter(a, b) ==
  \/ a = b
  \/ /\ IsUpper(a) /\ Ord(b) = Ord(a) + 27
  \/ /\ IsUpper(b) /\ Ord(a) = Ord(b) + 27

\* sub occurs in s, case-insensitively.
OccursIgnoringCase(sub, s) ==
  \E i \in 0..(Len(s) - Len(sub)) :
     \A j \in 1..Len(sub) : SameLetter(s[i + j], sub[j])

\* The document is in the target language and names a keyword.
Persistable(doc) ==
  /\ doc.lang.t = "str" /\ doc.lang.v = <<"E", "N", "G", "L", "I", "S", "H">>
  /\ \E k \in 1..Len(KEYWORDS) :
        \/ OccursIgnoringCase(KEYWORDS[k], TextOf(doc.title))
        \/ OccursIgnoringCase(KEYWORDS[k], TextOf(doc.url))

\* C4: every stored document, and every document handed to a bulk write, has
\* the language tag ENGLISH exactly and a keyword in its title or url,
\* case-insensitively.
C4_OnlyFiltered ==
  /\ \A c \in ClusterNames : \A i \in 1..Len(coll[c]) : Persistable(coll[c][i])
  /\ \A i \in 1..Len(documents) : Persistable(documents[i])

\* A batch with a record in lower-case "english" was written: the other
\* records of it were stored, that one was not.
C4_Witness ==
  /\ pc = "return" /\ last_outcome \in {"success", "BulkWriteError"}
  /\ inserted_count > 0
  /\ \E i \in 1..Len(pending_batch) :
        /\ pending_batch[i].kind = "dict"
        /\ pending_batch[i].lang.t = "str"
        /\ pending_batch[i].lang.v = <<"e", "n", "g", "l", "i", "s", "h">>
  /\ Len(documents) < Len(pending_batch)

\* What makes two documents the same article: the url, the title without one.
ArticleKey(doc) ==
  IF TextOf(doc.url) # <<>> THEN <<"url">> \o TextOf(doc.url)
  ELSE <<"title">> \o TextOf(doc.title)

\* C5: an article is stored at most once in the whole set of clusters.
C5_StoredOnce ==
  \A c1 \in ClusterNames, c2 \in ClusterNames :
     \A i \in 1..Len(coll[c1]), j \in 1..Len(coll[c2]) :
        ArticleKey(coll[c1][i]) = ArticleKey(coll[c2][j]) => (c1 = c2 /\ i = j)

\* C6: get_client_for_date never fails, whatever date the first document of a
\* batch carries, and a bulk write goes to the first cluster whose range holds
\* that date, to the first cluster when there is none.
C6_ResolveTotal ==
  /\ ~(pc = "raised" /\ exc \in {"TypeError", "ValueError"})
  /\ written # NoWrite =>
        LET d == IsoFields(documents[1].date.v)
            hits == {i \in 1..Len(Ranges) :
                       ~DtLess(d, Ranges[i].start_date) /\ ~DtLess(Ranges[i].end_date, d)}
        IN written.cluster =
             IF hits = {} THEN "cluster1"
             ELSE Ranges[CHOOSE i \in hits : \A j \in hits : i <= j].name

\* The steps C7 allows: a call makes at most 3 attempts, each with a client of its own, an
\* attempt after the first only after a timeout, 5 seconds of sleep after
\* each timeout; three timeouts end the call with (0, 0) returned, and
\* no attempt follows a success or a BulkWriteError.
C7_Step ==
  /\ attempts' <= 3
  /\ (attempts' = attempts + 1 /\ attempts >= 1) => last_outcome = "timeout"
  /\ (attempts' = attempts + 1 /\ pc' # "raised") => openClients' = openClients + 1
  /\ (attempts' = attempts + 1 /\ last_outcome' = "timeout") => slept' = slept + 5
  /\ (attempts' = attempts + 1 /\ last_outcome' = "timeout" /\ attempts' < 3) =>
        pc' = "attempt"
  /\ (attempts' = attempts + 1 /\ last_outcome' = "timeout" /\ attempts' = 3) =>
        (pc' = "return" /\ inserted_count' = 0 /\ duplicate_count' = 0)
  /\ (attempts' = attempts + 1 /\ last_outcome' # "timeout") => pc' # "attempt"
  /\ (pc = "return" /\ attempts = 3 /\ last_outcome = "timeout") =>
        (pc' \in {"files", "dayend"} /\ total_inserted' = total_inserted
           /\ total_duplicates' = total_duplicates)

\* C7: every step of the program is a step as C7_Step describes.
C7_Retry == [][C7_Step]_vars

\* A call has returned (0, 0) after three timeouts.
C7_Witness ==
  /\ pc = "return" /\ attempts = 3 /\ last_outcome = "timeout"
  /\ inserted_count = 0 /\ duplicate_count = 0 /\ slept = 15

\* C8: after a bulk write has reached the cluster, the collection holds what
\* it held before followed by every document of the batch whose identifier
\* was not stored and is the first of its identifier in the batch; the pair
\* returned is the number of documents newly stored and the number rejected.
C8_PartialWrite ==
  (pc = "return" /\ last_outcome \in {"success", "BulkWriteError"}) =>
    LET old == written.stored
        now == coll[written.cluster]
        fresh == {i \in 1..Len(documents) :
                    /\ \A k \in 1..Len(old) : old[k]._id # documents[i]._id
                    /\ \A j \in 1..(i - 1) : documents[j]._id # documents[i]._id}
    IN /\ Len(now) >= Len(old)
       /\ SubSeq(now, 1, Len(old)) = old
       /\ \A i \in fresh : \E k \in (Len(old) + 1)..Len(now) : now[k] = documents[i]
       /\ inserted_count = Len(now) - Len(old)
       /\ inserted_count = Cardinality(fresh)
       /\ duplicate_count = Len(documents) - inserted_count

\* A bulk write stored a document that follows a rejected one in its batch.
C8_Witness ==
  /\ pc = "return" /\ last_outcome = "BulkWriteError"
  /\ inserted_count > 0 /\ duplicate_count > 0
  /\ \E i \in 1..Len(documents), j \in 1..Len(documents) :
        /\ i < j
        /\ documents[i]._id = documents[j]._id
        /\ \E h \in (j + 1)..Len(documents) :
              \E k \in (Len(written.stored) + 1)..Len(coll[written.cluster]) :
                 coll[written.cluster][k] = documents[h]

\* C9: no client is open unless a write attempt or a storage check is in
\* progress.
C9_ClientsReleased == pc # "attempt" => openClients = 0

\* The values of the lines of a file that are JSON, in file order.
JsonValues(lines) ==
  LET json == SelectSeq(lines, LAMBDA l : l.body = "json")
  IN [k \in 1..Len(json) |-> json[k].val]

\* C10: the records read from a file are the values of its lines that parse
\* as JSON, in file order; the scenario partition, read into empty clusters
\* with no batch abandoned, gives 1 inserted and 0 duplicates.
C10_ReadSkipsMalformed ==
  /\ key # <<>> =>
        articles = JsonValues((CHOOSE o \in Objects(bucket) : o.key = key).lines)
  /\ \A n \in 1..Len(calls) :
        (/\ bucket.name = "scenario"
         /\ calls[n].day = <<"2", "0", "2", "4", "0", "3", "0", "1">>
         /\ calls[n].before = 0
         /\ ~calls[n].dropped)
        => (calls[n].inserted = 1 /\ calls[n].duplicates = 0)

\* The scenario day has been completed: the record behind the malformed line
\* was read and stored.
C10_Witness ==
  /\ bucket.name = "scenario"
  /\ key = K0301a
  /\ articles = <<FrTesla, EnTesla>>
  /\ calls # <<>>
  /\ calls[1].before = 0
  /\ calls[1].inserted = 1
  /\ calls[1].duplicates = 0

\* C11: a record that is valid JSON but malformed (no object, or a null title
\* or url) never raises out of process_articles_for_day: no run ends with the
\* AttributeError of insert_articles' loop over the batch.
C11_ParseErrorsLocal == ~(pc = "raised" /\ exc = "AttributeError")

\* insert_articles is running on the batch it was handed.
InCall == pc \in {"insert", "attempt", "return"}

C13_StopLogged == [][(pc = "check" /\ pc' = "stopped") => log' # log]_vars

\* The documents of the batch being written and of every cluster.
AllDocs ==
  {documents[i] : i \in 1..Len(documents)}
    \cup UNION {{coll[c][i] : i \in 1..Len(coll[c])} : c \in ClusterNames}

\* The document carries a url (a title) that is not empty.
HasUrl(doc) == TextOf(doc.url) # <<>>

HasTitle(doc) == TextOf(doc.title) # <<>>

C15_ConnectionFailureNotFatal ==
  ~(pc = "raised" /\ exc = "ServerSelectionTimeoutError")

\* The date of the document lies in the configured range of the cluster.
DateInRangeOf(doc, c) ==
  /\ Strptime(doc.date).exc = ""
  /\ \E r \in 1..Len(Ranges) :
        Ranges[r].name = c /\ InRange(Ranges[r], Strptime(doc.date).dt)

\* C16: the dated documents of a batch all resolve to the cluster of the
\* first document's date, and every stored document whose date lies in the
\* range of a cluster is stored in that cluster.
C16_ClusterHomogeneous ==
  /\ \A i \in 1..Len(documents) :
        \A c \in ClusterNames :
           DateInRangeOf(documents[i], c) =>
              get_client_for_date(documents[1].date).cluster = c
  /\ \A c \in ClusterNames, h \in ClusterNames :
        \A i \in 1..Len(coll[h]) : DateInRangeOf(coll[h][i], c) => h = c

\* The days of year y before its month m.
RECURSIVE DaysBefore(_, _)
DaysBefore(y, m) ==
  IF m <= 1 THEN 0 ELSE DaysBefore(y, m - 1) + DaysInMonth(y, m - 1)

\* The number of the day in its year.
DayOfYear(d) == DaysBefore(d[1], d[2]) + d[3]

\* b is the calendar day after a.
NextDay(a, b) ==
  \/ b[1] = a[1] /\ DayOfYear(b) = DayOfYear(a) + 1
  \/ /\ b[1] = a[1] + 1 /\ DayOfYear(b) = 1
     /\ a[2] = 12 /\ a[3] = 31

\* The day a line of the log is about, read from its "%Y%m%d" text.
DayOfLine(line) ==
  <<Num(line.date, 1, 4), Num(line.date, 5, 6), Num(line.date, 7, 8)>>

\* The places of the log where a line is not followed by the line of the
\* next calendar day.
LogBreaks ==
  {k \in 1..(Len(log) - 1) : ~NextDay(DayOfLine(log[k]), DayOfLine(log[k + 1]))}

\* The log is made of the lines of at most one stretch of consecutive days
\* per run, in day order.
LogInDayOrder == log = <<>> \/ Cardinality(LogBreaks) + 1 <= runs

\* A step that starts a run of the program.
NewRun == runs' = runs + 1

\* The steps C17 allows. Within a run the current day changes only after a
\* storage check that passes, to the next calendar day, and every return to
\* the loop test is such a step; a day is entered only when it is not after
\* end; the log changes only by the one line of the current day appended at
\* the end of the day, and the end of a day always appends it; the clusters
\* are written only inside insert_articles, the check comes only after the
\* line is written and is followed by the next day, the stop or an error;
\* at the check and at the stop the last line of the log is the line of the
\* current day, and the log with its new line is in day order.
C17_Step ==
  /\ (current_date' # current_date /\ ~NewRun) =>
        (pc = "check" /\ pc' = "loop" /\ NextDay(current_date, current_date'))
  /\ (pc' = "loop" /\ ~NewRun) =>
        (pc = "check" /\ NextDay(current_date, current_date'))
  /\ (pc = "loop" /\ pc' = "files") =>
        (~DtLess(end_date, current_date) /\ DayOfLine([date |-> date_str']) =
                                              SubSeq(current_date, 1, 3))
  /\ log' # log =>
        /\ pc = "dayend" /\ pc' = "check"
        /\ Len(log') = Len(log) + 1
        /\ SubSeq(log', 1, Len(log)) = log
        /\ DayOfLine(log'[Len(log')]) = SubSeq(current_date, 1, 3)
        /\ log'[Len(log')].inserted = total_inserted
        /\ log'[Len(log')].duplicates = total_duplicates
        /\ LogInDayOrder'
  /\ pc = "dayend" => Len(log') = Len(log) + 1
  /\ coll' # coll => (pc = "attempt" /\ pc' = "return")
  /\ pc' = "check" => pc = "dayend"
  /\ pc = "check" => pc' \in {"loop", "stopped", "raised"}
  /\ pc' \in {"check", "stopped"} =>
        (log' # <<>> /\ DayOfLine(log'[Len(log')]) = SubSeq(current_date', 1, 3))

\* C17: every step of the program is a step as C17_Step describes.
C17_DayOrder == [][C17_Step]_vars

\* The first run of the program went through two days and was stopped by the
\* check of the second: the log holds the lines of both days, in day order.
C17_Witness ==
  /\ runs = 1 /\ pc = "stopped"
  /\ Len(log) = 2
  /\ NextDay(DayOfLine(log[1]), DayOfLine(log[2]))
  /\ DayOfLine(log[2]) = SubSeq(current_date, 1, 3)
  /\ log[2].inserted > 0

\* C18: every bulk write of a day reaches the cluster whose storage is
\* checked after that day, the cluster db.py resolves from the current day.
C18_CheckedClusterWritten ==
  (pc = "return" /\ written # NoWrite) =>
     written.cluster = db_get_client_for_date(current_date)

\* The keys of S as a sequence in strictly increasing lexical order.
OrderedKeys(S) ==
  CHOOSE s \in [1..Cardinality(S) -> S] :
     \A i \in 1..Cardinality(S), j \in 1..Cardinality(S) :
        i < j => LexLess(s[i], s[j])

\* The partitions of the day: the keys under "day/" that end in ".gz".
PartitionsOf(day) ==
  OrderedKeys({o.key : o \in {p \in Objects(bucket) :
                                /\ StartsWith(p.key, day \o <<"/">>)
                                /\ EndsWith(p.key, GZ)}})

\* The records of the first n keys of ks, key after key, each file in line
\* order.
RECURSIVE RecordsOf(_, _)
RecordsOf(ks, n) ==
  IF n = 0 THEN <<>>
  ELSE RecordsOf(ks, n - 1)
         \o JsonValues((CHOOSE o \in Objects(bucket) : o.key = ks[n]).lines)

\* The batches of a sequence of batches, one after the other.
RECURSIVE Flatten(_)
Flatten(batches) ==
  IF batches = <<>> THEN <<>>
  ELSE Flatten(SubSeq(batches, 1, Len(batches) - 1)) \o batches[Len(batches)]

\* The sum of the i-th components of a sequence of pairs.
RECURSIVE SumOf(_, _)
SumOf(pairs, i) ==
  IF pairs = <<>> THEN 0
  ELSE SumOf(SubSeq(pairs, 1, Len(pairs) - 1), i) + pairs[Len(pairs)][i]

\* C19: while a day is read, the batches handed to insert_articles so far,
\* followed by the batch not yet handed over, are the records of the day's
\* partitions read so far, in key order and line order, each once; when the
\* day is complete the batches handed over are the records of all partitions
\* of that day and of no other; every batch handed over is answered by one
\* pair, the totals are the sums of the pairs, and the totals returned for
\* the day are these sums.
C19_EveryRecordOnce ==
  /\ pc \in {"files", "insert", "attempt", "return"} =>
        LET ks == PartitionsOf(date_str)
            read == Len(ks) - Len(keys)
        IN /\ read >= 0
           /\ Flatten(handed) \o (IF pc = "files" THEN pending_batch ELSE <<>>)
                = RecordsOf(ks, read)
  /\ pc \in {"dayend", "check"} =>
        Flatten(handed) = RecordsOf(PartitionsOf(date_str),
                                    Len(PartitionsOf(date_str)))
  /\ \A b \in 1..Len(handed) : handed[b] # <<>>
  /\ Len(handed) = Len(returned) + (IF InCall THEN 1 ELSE 0)
        \/ (pc = "raised" /\ Len(handed) = Len(returned) + 1)
  /\ total_inserted = SumOf(returned, 1)
  /\ total_duplicates = SumOf(returned, 2)
  /\ pc = "check" =>
        /\ calls[Len(calls)].inserted = SumOf(returned, 1)
        /\ calls[Len(calls)].duplicates = SumOf(returned, 2)

\* A day of two partitions is complete: the first partition filled a batch
\* that was handed over inside the loop, the second gave the final batch, and
\* the totals are the sums of the two pairs returned.
C19_Witness ==
  /\ pc = "check"
  /\ Len(PartitionsOf(date_str)) = 2
  /\ Len(handed) = 2 /\ Len(returned) = 2
  /\ Len(handed[1]) > Len(handed[2])
  /\ returned[1][1] > 0
  /\ total_inserted = returned[1][1] + returned[2][1]

====
